---- MODULE Spec2Model ----
(***************************************************************************)
(* Model of duo_openvpn.py (src/salt/files/duo/duo_openvpn_vpn_001.py):    *)
(* the two-phase authentication workflow of main(), the control file it    *)
(* writes, and the replay cache kept as marker files in CACHE_DIR.         *)
(*                                                                         *)
(* Several invocations of main() run concurrently, one per connection      *)
(* attempt. Each has its own control file and its own local variables;     *)
(* they share the cache directory and the wall clock.                      *)
(***************************************************************************)
EXTENDS Integers, Sequences, FiniteSets, TLC

(***************************************************************************)
(* Bounds of the model.                                                    *)
(***************************************************************************)
\* number of invocations of main() started in one behaviour
MaxInvocations == 3
\* the wall clock stops advancing at this many seconds
MaxClock == 64800
\* seconds added by one advance of the wall clock (half a retention window)
TickSeconds == 21600

\* the concurrently running invocations (processes started by the gateway)
Procs == {1, 2}

(***************************************************************************)
(* Values.                                                                 *)
(***************************************************************************)
\* Python's None, and a local name that was never bound
None == "<None>"
Unbound == "<unbound>"

API_RESULT_AUTH == "auth"
API_RESULT_ALLOW == "allow"
API_RESULT_DENY == "deny"
API_RESULT_ENROLL == "enroll"

\* environ values of the connection attempts
Usernames == {"alice", None}
Passwords == {"alice", "10.0.0.5", None}
Ipaddrs == {"10.0.0.5"}
\* whether environ carries the path of the control file
Controls == {TRUE, FALSE}

\* the payloads the service can return from /rest/v1/preauth
PreauthResponses ==
    [result : {API_RESULT_AUTH}, status : {None}, factors : {None, "{}", "push"}]
    \cup
    [result : {API_RESULT_ALLOW, API_RESULT_DENY, API_RESULT_ENROLL, "bogus", None},
     status : {"ok", None}, factors : {None}]

\* the payloads the service can return from /rest/v1/auth
AuthResponses ==
    [result : {API_RESULT_ALLOW, API_RESULT_DENY, "bogus", None},
     status : {"ok", None}, factors : {None}]

NoResponse == [result |-> None, status |-> None, factors |-> None]

\* the sets of required settings that environ can lack
Configs == SUBSET {"ikey", "skey", "host"}

\* the parameters of the two API calls
NoRequest ==
    [path |-> None, user |-> None, factor |-> None, auto |-> None, ipaddr |-> None]

\* preauth, lines 309-311
PreauthParams(u) ==
    [path |-> "/rest/v1/preauth", user |-> u, factor |-> None, auto |-> None,
     ipaddr |-> None]

\* an authentication call that sends the password as the factor name
AuthParamsSwapped(u, pw, ip) ==
    [path |-> "/rest/v1/auth", user |-> u, factor |-> pw, auto |-> "auto",
     ipaddr |-> ip]

\* auth, lines 340-345
AuthParams(u, pw, ip) ==
    [path |-> "/rest/v1/auth", user |-> u, factor |-> "auto", auto |-> pw,
     ipaddr |-> ip]

\* Python truthiness of the values used here: None and '' are false
Truthy(v) == v # None /\ v # ""

(***************************************************************************)
(* State.                                                                  *)
(***************************************************************************)
VARIABLES
    pc,             \* position of each invocation in main()
    username,       \* main: username
    password,       \* main: password (reassigned at line 437)
    ipaddr,         \* main: ipaddr
    default_factor, \* main: default_factor (Unbound until preauth returns)
    exc,            \* the exception last raised in the invocation (e)
    response,       \* preauth/auth: response
    now,            \* clean_cache: now
    listing,        \* clean_cache: entries of os.listdir not yet visited
    file,           \* clean_cache: file
    connection_hash,\* check_cache/cache_auth: connection_hash
    hit,            \* check_cache: os.path.isfile(...) was true
    control,        \* the codes written to the control file, oldest first
    netcalls,       \* endpoints for which a request was sent
    seen,           \* what the service answered to this invocation
    supplied,       \* environ.get('password'), as the caller supplied it
    config,         \* the settings among ikey, skey, host missing from environ
    request,        \* the parameters last passed to client.json_api_call
    cache,          \* CACHE_DIR: file name -> st_mtime
    clock,          \* time.time()
    invocations,    \* invocations started so far
    stored,         \* identity tuples passed to cache_auth so far
    confirmed,      \* identity tuples with a well-formed Allow from auth
    conns,          \* Client: the connections made by _connect, in order
    cpc,            \* Client: position inside json_api_call
    http,           \* _make_request: response and data
    outcome,        \* json_api_call: what the last call returned or raised
    params,         \* canon_params: params, as (key, vals) in iteration order
    canonical       \* canon_params / canonicalize: the strings returned

vars == <<pc, username, password, ipaddr, default_factor, exc, response, now,
          listing, file, connection_hash, hit, control, netcalls, seen,
          supplied, config, request,
          cache, clock, invocations, stored, confirmed,
          conns, cpc, http, outcome, params, canonical>>

locals == <<username, password, ipaddr, default_factor, exc, response, now,
            listing, file, connection_hash, hit, control, netcalls, seen,
            supplied, config, request>>

shared == <<cache, clock, invocations, stored, confirmed>>

\* the state of the API client (lines 106-290)
client == <<conns, cpc, http, outcome>>

\* the state of the canonicalizer (lines 44-74)
signing == <<params, canonical>>

\* the state of the workflow (lines 292-446)
workflow == <<pc, locals, shared>>


(***************************************************************************)
(* Cache keys: get_hash_for_connection.                                    *)
(***************************************************************************)
\* The dict literal {username: username, password: password, ipaddr: ipaddr}
\* uses the three VALUES as its keys: inserting a key that is already
\* present replaces its value and adds no item. InsertKeys gives the keys of
\* the dict in order of first insertion.
RECURSIVE InsertKeys(_, _)
InsertKeys(items, keys) ==
    IF items = <<>> THEN keys
    ELSE IF \E i \in 1..Len(keys) : keys[i] = Head(items)
         THEN InsertKeys(Tail(items), keys)
         ELSE InsertKeys(Tail(items), Append(keys, Head(items)))

\* json.dumps of one key or value: None is written as null
JsonValue(v) == IF v = None THEN "null" ELSE v

\* json.dumps of the dict: one (key, value) item per key, each key mapped to
\* itself. The order in which the items are written is a function of the
\* keys and their insertion history; insertion order keeps all of it.
RECURSIVE JsonDumps(_)
JsonDumps(keys) ==
    IF keys = <<>> THEN <<>>
    ELSE <<(<<JsonValue(Head(keys)), JsonValue(Head(keys))>>)>> \o JsonDumps(Tail(keys))

\* hashlib.sha512().hexdigest(), taken to be free of collisions
Sha512(text) == <<"sha512", text>>

get_hash_for_connection(u, pw, ip) ==
    Sha512(JsonDumps(InsertKeys(<<u, pw, ip>>, <<>>)))

\* the identity tuple of invocation p, as passed to check_cache and cache_auth
Identity(p) == <<username[p], password[p], ipaddr[p]>>

(***************************************************************************)
(* Control file: success and failure only write, they never stop main.     *)
(***************************************************************************)
success(written) == Append(written, "1")
failure(written) == Append(written, "0")

(***************************************************************************)
(* Cache directory.                                                        *)
(***************************************************************************)
\* a sweep that keeps entries for 24 hours instead of 12
ExpiredAfterTwoWindows(mtime, t) == mtime < t - 24 * 60 * 60

\* clean_cache's test on a file's st_mtime
Expired(mtime, t) == mtime < t - 12 * 60 * 60

\* os.remove(file)
Remove(dir, f) == [k \in DOMAIN dir \ {f} |-> dir[k]]

\* open(file, 'w').close(): creates the file or truncates it; either way its
\* st_mtime becomes the current time
Touch(dir, f, t) == [k \in DOMAIN dir \cup {f} |-> IF k = f THEN t ELSE dir[k]]

\* how a payload counts for the decision: a well-formed Allow carries
\* result "allow" and a status
Classify(r) ==
    IF r.result = API_RESULT_AUTH THEN "auth"
    ELSE IF r.result = API_RESULT_ALLOW /\ Truthy(r.status) THEN "allow"
    ELSE "other"


(***************************************************************************)
(* Request signing: canon_params and canonicalize, lines 44-74. A string   *)
(* is the sequence of its character codes.                                 *)
(***************************************************************************)
\* the longest list of values of one parameter
MaxVals == 2

\* parameter names: "a" and "|"
ParamKeys == {<<97>>, <<124>>}
\* parameter values: "a", "|" and "a~"
ParamVals == {<<97>>, <<124>>, <<97, 126>>}

\* urllib.quote: always_safe (letters, digits, "_.-") and the argument "~"
Safe == (65..90) \cup (97..122) \cup (48..57) \cup {95, 46, 45} \cup {126}

\* the upper-case hexadecimal digit of n
HexDigit(n) == IF n < 10 THEN 48 + n ELSE 55 + n

\* urllib.quote(s, '~'): other characters become "%XX"
RECURSIVE quote(_)
quote(s) ==
    IF s = <<>> THEN <<>>
    ELSE (IF Head(s) \in Safe THEN <<Head(s)>>
          ELSE <<37, HexDigit(Head(s) \div 16), HexDigit(Head(s) % 16)>>)
         \o quote(Tail(s))

\* s < t on strings
RECURSIVE StrLess(_, _)
StrLess(s, t) ==
    IF t = <<>> THEN FALSE
    ELSE IF s = <<>> THEN TRUE
    ELSE IF Head(s) # Head(t) THEN Head(s) < Head(t)
    ELSE StrLess(Tail(s), Tail(t))

\* a < b on lists of strings
RECURSIVE ListLess(_, _)
ListLess(a, b) ==
    IF b = <<>> THEN FALSE
    ELSE IF a = <<>> THEN TRUE
    ELSE IF Head(a) # Head(b) THEN StrLess(Head(a), Head(b))
    ELSE ListLess(Tail(a), Tail(b))

\* a < b on the tuples (quoted key, vals) of line 53
ItemLess(a, b) ==
    \/ StrLess(a[1], b[1])
    \/ a[1] = b[1] /\ ListLess(a[2], b[2])

\* the values of a parameter left in the order of the list
Unsorted(s) == s

RECURSIVE InsertStr(_, _)
InsertStr(x, s) ==
    IF s = <<>> THEN <<x>>
    ELSE IF StrLess(x, Head(s)) THEN <<x>> \o s
    ELSE <<Head(s)>> \o InsertStr(x, Tail(s))

\* sorted(...) on strings, line 54
RECURSIVE SortStrings(_)
SortStrings(s) ==
    IF s = <<>> THEN <<>> ELSE InsertStr(Head(s), SortStrings(Tail(s)))

RECURSIVE InsertItem(_, _)
InsertItem(x, s) ==
    IF s = <<>> THEN <<x>>
    ELSE IF ItemLess(x, Head(s)) THEN <<x>> \o s
    ELSE <<Head(s)>> \o InsertItem(x, Tail(s))

\* sorted(...) on (quoted key, vals), lines 52-53
RECURSIVE SortItems(_)
SortItems(s) ==
    IF s = <<>> THEN <<>> ELSE InsertItem(Head(s), SortItems(Tail(s)))

\* sep.join(strings)
RECURSIVE Join(_, _)
Join(strings, sep) ==
    IF strings = <<>> THEN <<>>
    ELSE IF Len(strings) = 1 THEN strings[1]
    ELSE strings[1] \o sep \o Join(Tail(strings), sep)

\* lines 54-55: the args appended for one (key, vals)
ArgsOf(key, vals) ==
    LET quoted == SortStrings([i \in 1..Len(vals) |-> quote(vals[i])])
    IN  [i \in 1..Len(quoted) |-> key \o <<61>> \o quoted[i]]

RECURSIVE Args(_)
Args(items) ==
    IF items = <<>> THEN <<>>
    ELSE ArgsOf(Head(items)[1], Head(items)[2]) \o Args(Tail(items))

\* lines 44-55; p lists params.items() in the iteration order of the dict
canon_params(p) ==
    Join(Args(SortItems([i \in 1..Len(p) |-> <<quote(p[i][1]), p[i][2]>>])),
         <<38>>)

\* str.upper and str.lower
Upper(s) == [i \in 1..Len(s) |-> IF s[i] \in 97..122 THEN s[i] - 32 ELSE s[i]]
Lower(s) == [i \in 1..Len(s) |-> IF s[i] \in 65..90 THEN s[i] + 32 ELSE s[i]]

\* the other arguments of canonicalize: "post", "Api.x", "/p" and a date "D"
Method == <<112, 111, 115, 116>>
Host == <<65, 112, 105, 46, 120>>
Uri == <<47, 112>>
Date == <<68>>
SigVersions == {1, 2}

\* lines 57-74, for sig_version 1 or 2
canonicalize(method, host, uri, p, date, sig_version) ==
    Join((IF sig_version = 1 THEN <<>> ELSE <<date>>)
             \o <<Upper(method), Lower(host), uri, canon_params(p)>>,
         <<10>>)

\* no request was signed: canonical before the call of sign
NotSigned == [version |-> 0, params |-> <<>>, request |-> <<>>]

\* the lists of at most MaxVals values
ValLists == UNION {[1..n -> ParamVals] : n \in 0..MaxVals}

\* s without its i-th element
RemoveAt(s, i) == [j \in 1..(Len(s) - 1) |-> IF j < i THEN s[j] ELSE s[j + 1]]

\* the orders in which the elements of s can be listed
RECURSIVE Orders(_)
Orders(s) ==
    IF s = <<>> THEN {<<>>}
    ELSE UNION { {<<s[i]>> \o rest : rest \in Orders(RemoveAt(s, i))} :
                 i \in 1..Len(s) }

\* the mappings that differ from p in the insertion order of the keys and
\* in the order of the values of a key
RECURSIVE Reorderings(_)
Reorderings(p) ==
    IF p = <<>> THEN {<<>>}
    ELSE UNION { {<<<<p[i][1], vals>>>> \o rest :
                      vals \in Orders(p[i][2]),
                      rest \in Reorderings(RemoveAt(p, i))} :
                 i \in 1..Len(p) }

\* the keys of a dict in an iteration order: every key at most once
KeyLists ==
    {<<>>} \cup {<<k>> : k \in ParamKeys}
           \cup {ks \in ParamKeys \X ParamKeys : ks[1] # ks[2]}

\* the parameter mappings after normalize_params (lines 87-104): every
\* value is a list of strings
ParamMappings ==
    { [i \in 1..Len(ks) |-> <<ks[i], vs[i]>>] :
      ks \in KeyLists, vs \in [1..Cardinality(ParamKeys) -> ValLists] }


(***************************************************************************)
(* The API client: Client.parse_json_response, lines 253-290.              *)
(***************************************************************************)
\* the number of calls the client makes
MaxCalls == 2

\* response.status and response.reason as the server sends them
Statuses == {200, 400}
Reasons == {"OK", "Bad Request"}

\* the bodies returned by response.read(), as received
Bodies ==
    { "<html>",
      "[]",
      "{}",
      "{\"stat\": \"OK\", \"response\": \"auth\"}",
      "{\"stat\": \"OK\"}",
      "{\"response\": \"auth\"}",
      "{\"stat\": \"FAIL\", \"message\": \"m\"}",
      "{\"stat\": \"FAIL\", \"message\": \"m\", \"message_detail\": \"d\"}",
      "{\"stat\": \"FAIL\", \"message_detail\": \"d\"}" }

NoMembers == [k \in {} |-> ""]
NoJson == [type |-> "none", members |-> NoMembers]

\* json.loads: the value a body decodes to; type "ValueError" when it does
\* not decode
json_loads(raw) ==
    CASE raw = "[]" -> [type |-> "array", members |-> NoMembers]
      [] raw = "{}" -> [type |-> "object", members |-> NoMembers]
      [] raw = "{\"stat\": \"OK\", \"response\": \"auth\"}" ->
            [type |-> "object", members |-> [stat |-> "OK", response |-> "auth"]]
      [] raw = "{\"stat\": \"OK\"}" ->
            [type |-> "object", members |-> [stat |-> "OK"]]
      [] raw = "{\"response\": \"auth\"}" ->
            [type |-> "object", members |-> [response |-> "auth"]]
      [] raw = "{\"stat\": \"FAIL\", \"message\": \"m\"}" ->
            [type |-> "object", members |-> [stat |-> "FAIL", message |-> "m"]]
      [] raw = "{\"stat\": \"FAIL\", \"message\": \"m\", \"message_detail\": \"d\"}" ->
            [type |-> "object",
             members |-> [stat |-> "FAIL", message |-> "m", message_detail |-> "d"]]
      [] raw = "{\"stat\": \"FAIL\", \"message_detail\": \"d\"}" ->
            [type |-> "object", members |-> [stat |-> "FAIL", message_detail |-> "d"]]
      [] OTHER -> [type |-> "ValueError", members |-> NoMembers]

\* the value of the variable data: the bytes read, or what line 265 / 283
\* rebound it to
Bytes(raw) == [form |-> "bytes", bytes |-> raw, value |-> NoJson]
Decoded(d) == [form |-> "decoded", bytes |-> None, value |-> d]
NoData == [form |-> "none", bytes |-> None, value |-> NoJson]

\* data after "data = json.loads(data)": the assignment does not happen when
\* json.loads raises
DataAfterLoads(raw) ==
    IF json_loads(raw).type = "ValueError" THEN Bytes(raw)
    ELSE Decoded(json_loads(raw))

\* data[k]: the exception it raises, or None
GetItem(d, k) ==
    IF d.type # "object" THEN "TypeError"
    ELSE IF k \notin DOMAIN d.members THEN "KeyError"
    ELSE None

NoHttp == [status |-> 0, reason |-> None, data |-> None]
NoOutcome ==
    [kind |-> "none", exc |-> None, msg |-> None, status |-> 0,
     reason |-> None, data |-> NoData, value |-> None]

Returns(v) == [NoOutcome EXCEPT !.kind = "return", !.value = v]
Raises(e) == [NoOutcome EXCEPT !.kind = "raise", !.exc = e]

\* raise_error, lines 257-262: data is the variable of the enclosing call
raise_error(msg, status, reason, data) ==
    [kind |-> "raise", exc |-> "RuntimeError", msg |-> msg, status |-> status,
     reason |-> reason, data |-> data, value |-> None]

\* a handler that lets TypeError through
HandledWithoutTypeError == {"ValueError", "KeyError"}

\* lines 276 and 288: except (ValueError, KeyError, TypeError)
Handled == {"ValueError", "KeyError", "TypeError"}

\* lines 263-281: the exception that ends the try block, None when the block
\* runs to its end, "raise_error" when raise_error is called inside it
ErrorBodyEnds(d) ==
    IF d.type = "ValueError" THEN "ValueError"
    ELSE IF GetItem(d, "stat") # None THEN GetItem(d, "stat")
    ELSE IF d.members["stat"] # "FAIL" THEN None
    ELSE IF GetItem(d, "message") # None THEN GetItem(d, "message")
    ELSE "raise_error"

\* lines 263-281, status other than 200
ParseError(status, reason, raw) ==
    LET d == json_loads(raw)
        e == ErrorBodyEnds(d)
        data == DataAfterLoads(raw)
    IN  IF e = "raise_error"
        THEN raise_error(IF "message_detail" \in DOMAIN d.members
                         THEN "status message (message_detail)"
                         ELSE "status message",
                         status, reason, data)
        ELSE IF e = None \/ e \in Handled
        THEN raise_error("status reason", status, reason, data)
        ELSE Raises(e)

\* lines 282-290: the exception that ends the try block, None when it
\* returns, "raise_error" when raise_error is called inside it
OkBodyEnds(d) ==
    IF d.type = "ValueError" THEN "ValueError"
    ELSE IF GetItem(d, "stat") # None THEN GetItem(d, "stat")
    ELSE IF d.members["stat"] # "OK" THEN "raise_error"
    ELSE GetItem(d, "response")

\* lines 282-290, status 200
ParseOk(status, reason, raw) ==
    LET d == json_loads(raw)
        e == OkBodyEnds(d)
        data == DataAfterLoads(raw)
    IN  IF e = None THEN Returns(d.members["response"])
        ELSE IF e = "raise_error"
        THEN raise_error("error response", status, reason, data)
        ELSE IF e \in Handled
        THEN raise_error("bad response", status, reason, data)
        ELSE Raises(e)

parse_json_response(status, reason, raw) ==
    IF status # 200 THEN ParseError(status, reason, raw)
    ELSE ParseOk(status, reason, raw)


(***************************************************************************)
(* Initial state: no invocation runs, the cache directory is empty.        *)
(***************************************************************************)
NoHash == <<>>
NoSeen == [pre |-> "none", auth |-> "none"]

Init ==
    /\ pc = [p \in Procs |-> "idle"]
    /\ username = [p \in Procs |-> None]
    /\ password = [p \in Procs |-> None]
    /\ ipaddr = [p \in Procs |-> None]
    /\ default_factor = [p \in Procs |-> Unbound]
    /\ exc = [p \in Procs |-> None]
    /\ response = [p \in Procs |-> NoResponse]
    /\ now = [p \in Procs |-> 0]
    /\ listing = [p \in Procs |-> {}]
    /\ file = [p \in Procs |-> NoHash]
    /\ connection_hash = [p \in Procs |-> NoHash]
    /\ hit = [p \in Procs |-> FALSE]
    /\ control = [p \in Procs |-> <<>>]
    /\ netcalls = [p \in Procs |-> {}]
    /\ seen = [p \in Procs |-> NoSeen]
    /\ supplied = [p \in Procs |-> None]
    /\ config = [p \in Procs |-> {}]
    /\ request = [p \in Procs |-> NoRequest]
    /\ cache = <<>>
    /\ clock = 0
    /\ invocations = 0
    /\ stored = {}
    /\ confirmed = {}
    /\ conns = <<>>
    /\ cpc = "idle"
    /\ http = NoHttp
    /\ outcome = NoOutcome
    /\ params = <<>>
    /\ canonical = NotSigned

(***************************************************************************)
(* main, lines 395-424: a new invocation reads environ. get_config writes  *)
(* the failure code for every setting among ikey, skey and host that is    *)
(* missing and returns None for it; the client is constructed all the      *)
(* same. environ names no proxy_host, so set_proxy is not called.          *)
(***************************************************************************)
\* lines 406-419: the codes written by the three calls of get_config
ConfigWrites(cfg) == [i \in 1..Cardinality(cfg) |-> "0"]

Start(p, c, u, pw, ip, cfg) ==
    /\ pc[p] \in {"idle", "done", "crashed"}
    /\ invocations < MaxInvocations
    /\ invocations' = invocations + 1
    /\ username' = [username EXCEPT ![p] = u]
    /\ password' = [password EXCEPT ![p] = pw]
    /\ ipaddr' = [ipaddr EXCEPT ![p] = ip]
    /\ default_factor' = [default_factor EXCEPT ![p] = Unbound]
    /\ response' = [response EXCEPT ![p] = NoResponse]
    /\ now' = [now EXCEPT ![p] = 0]
    /\ listing' = [listing EXCEPT ![p] = {}]
    /\ file' = [file EXCEPT ![p] = NoHash]
    /\ connection_hash' = [connection_hash EXCEPT ![p] = NoHash]
    /\ hit' = [hit EXCEPT ![p] = FALSE]
    /\ netcalls' = [netcalls EXCEPT ![p] = {}]
    /\ seen' = [seen EXCEPT ![p] = NoSeen]
    /\ supplied' = [supplied EXCEPT ![p] = pw]
    /\ config' = [config EXCEPT ![p] = cfg]
    /\ request' = [request EXCEPT ![p] = NoRequest]
    /\ IF ~c
       THEN \* failure(None): open(None, 'w') raises TypeError outside any try
            /\ pc' = [pc EXCEPT ![p] = "crashed"]
            /\ exc' = [exc EXCEPT ![p] = "TypeError"]
            /\ control' = [control EXCEPT ![p] = <<>>]
       ELSE IF ~Truthy(u)
       THEN \* lines 401-404: failure(control); return
            /\ pc' = [pc EXCEPT ![p] = "done"]
            /\ exc' = [exc EXCEPT ![p] = None]
            /\ control' = [control EXCEPT ![p] = failure(<<>>)]
       ELSE /\ pc' = [pc EXCEPT ![p] = "preauth"]
            /\ exc' = [exc EXCEPT ![p] = None]
            /\ control' = [control EXCEPT ![p] = ConfigWrites(cfg)]
    /\ UNCHANGED <<cache, clock, stored, confirmed>>
    /\ UNCHANGED <<client, signing>>

(***************************************************************************)
(* preauth, line 309: client.json_api_call('POST', '/rest/v1/preauth').    *)
(***************************************************************************)
\* Client.api_call, lines 150-159: sign runs before any request is sent.
\* canonicalize calls host.lower() (AttributeError when host is None), and
\* hmac.new takes len(skey) (TypeError when skey is None). A missing ikey
\* raises nothing: it is formatted into the Authorization header as "None".
SignError(cfg) ==
    IF "host" \in cfg THEN "AttributeError"
    ELSE IF "skey" \in cfg THEN "TypeError"
    ELSE None

\* The call raises: in sign, before a request is sent, or else as a
\* transport failure or a RuntimeError from parse_json_response. main's
\* handler at lines 428-430 writes the failure code and goes on.
\* default_factor is never assigned.
PreauthRaise(p) ==
    /\ pc[p] = "preauth"
    /\ request' = [request EXCEPT ![p] = PreauthParams(username[p])]
    /\ IF SignError(config[p]) # None
       THEN /\ exc' = [exc EXCEPT ![p] = SignError(config[p])]
            /\ UNCHANGED <<netcalls, seen>>
       ELSE /\ netcalls' = [netcalls EXCEPT ![p] = @ \cup {"preauth"}]
            /\ seen' = [seen EXCEPT ![p].pre = "error"]
            /\ exc' = [exc EXCEPT ![p] = "RuntimeError"]
    /\ control' = [control EXCEPT ![p] = failure(@)]
    /\ pc' = [pc EXCEPT ![p] = "factor"]
    /\ UNCHANGED <<username, password, ipaddr, default_factor, response, now,
                   listing, file, connection_hash, hit>>
    /\ UNCHANGED shared
    /\ UNCHANGED <<supplied, config>>
    /\ UNCHANGED <<client, signing>>

\* The call returns the payload r.
PreauthResponse(p, r) ==
    /\ pc[p] = "preauth"
    /\ SignError(config[p]) = None
    /\ request' = [request EXCEPT ![p] = PreauthParams(username[p])]
    /\ netcalls' = [netcalls EXCEPT ![p] = @ \cup {"preauth"}]
    /\ seen' = [seen EXCEPT ![p].pre = Classify(r)]
    /\ response' = [response EXCEPT ![p] = r]
    /\ pc' = [pc EXCEPT ![p] = "preauth_result"]
    /\ UNCHANGED <<username, password, ipaddr, default_factor, exc, now,
                   listing, file, connection_hash, hit, control>>
    /\ UNCHANGED shared
    /\ UNCHANGED <<supplied, config>>
    /\ UNCHANGED <<client, signing>>

\* preauth, lines 319-335: the codes written for a payload whose result is
\* not "auth". A missing status writes the failure code and falls through to
\* the branch on result.
PreauthWrites(r, written) ==
    LET w1 == IF ~Truthy(r.status) THEN failure(written) ELSE written
    IN  IF r.result = API_RESULT_ENROLL THEN failure(w1)
        ELSE IF r.result = API_RESULT_DENY THEN failure(w1)
        ELSE IF r.result = API_RESULT_ALLOW THEN success(w1)
        ELSE failure(w1)

\* preauth, lines 315-335, and the assignment of its return value at 427.
PreauthResult(p) ==
    /\ pc[p] = "preauth_result"
    /\ LET r == response[p] IN
       IF r.result = API_RESULT_AUTH
       THEN IF r.factors = None
            THEN \* response['factors'] raises KeyError, caught at 428
                 /\ exc' = [exc EXCEPT ![p] = "KeyError"]
                 /\ control' = [control EXCEPT ![p] = failure(@)]
                 /\ UNCHANGED default_factor
            ELSE \* response['factors'].get('default')
                 /\ default_factor' = [default_factor EXCEPT ![p] =
                        IF r.factors = "{}" THEN None ELSE r.factors]
                 /\ UNCHANGED <<exc, control>>
       ELSE \* preauth returns None
            /\ default_factor' = [default_factor EXCEPT ![p] = None]
            /\ control' = [control EXCEPT ![p] = PreauthWrites(r, @)]
            /\ UNCHANGED exc
    /\ response' = [response EXCEPT ![p] = NoResponse]
    /\ pc' = [pc EXCEPT ![p] = "factor"]
    /\ UNCHANGED <<username, password, ipaddr, now, listing, file,
                   connection_hash, hit, netcalls, seen>>
    /\ UNCHANGED shared
    /\ UNCHANGED <<supplied, config, request>>
    /\ UNCHANGED <<client, signing>>

(***************************************************************************)
(* main, lines 432-437.                                                    *)
(***************************************************************************)
Factor(p) ==
    /\ pc[p] = "factor"
    /\ IF Truthy(password[p])
       THEN \* "password or default_factor" does not evaluate default_factor
            /\ pc' = [pc EXCEPT ![p] = "check_cache"]
            /\ UNCHANGED <<password, control, exc>>
       ELSE IF default_factor[p] = Unbound
       THEN \* UnboundLocalError, raised outside any try: it leaves main
            /\ pc' = [pc EXCEPT ![p] = "crashed"]
            /\ exc' = [exc EXCEPT ![p] = "UnboundLocalError"]
            /\ UNCHANGED <<password, control>>
       ELSE IF ~Truthy(default_factor[p])
       THEN /\ control' = [control EXCEPT ![p] = failure(@)]
            /\ pc' = [pc EXCEPT ![p] = "check_cache"]
            /\ UNCHANGED <<password, exc>>
       ELSE /\ password' = [password EXCEPT ![p] = default_factor[p]]
            /\ pc' = [pc EXCEPT ![p] = "check_cache"]
            /\ UNCHANGED <<control, exc>>
    /\ UNCHANGED <<username, ipaddr, default_factor, response, now, listing,
                   file, connection_hash, hit, netcalls, seen>>
    /\ UNCHANGED shared
    /\ UNCHANGED <<supplied, config, request>>
    /\ UNCHANGED <<client, signing>>


(***************************************************************************)
(* check_cache and clean_cache, lines 365-389, called inside the try of    *)
(* lines 439-444. Every system call is one step: other invocations and the *)
(* clock move between them.                                                *)
(***************************************************************************)
\* An exception raised inside the try of lines 439-444: the handler writes
\* the failure code, and main goes on to its last line. auth is skipped.
Caught(p, e) ==
    /\ exc' = [exc EXCEPT ![p] = e]
    /\ control' = [control EXCEPT ![p] = failure(@)]
    /\ pc' = [pc EXCEPT ![p] = "final"]

\* lines 366-367: now = time.time(); os.listdir(CACHE_DIR)
CleanStart(p) ==
    /\ pc[p] = "check_cache"
    /\ now' = [now EXCEPT ![p] = clock]
    /\ listing' = [listing EXCEPT ![p] = DOMAIN cache]
    /\ pc' = [pc EXCEPT ![p] = "clean_loop"]
    /\ UNCHANGED <<username, password, ipaddr, default_factor, exc, response,
                   file, connection_hash, hit, control, netcalls, seen>>
    /\ UNCHANGED shared
    /\ UNCHANGED <<supplied, config, request>>
    /\ UNCHANGED <<client, signing>>

\* line 369: os.stat(file) on the next listed entry f. It raises OSError
\* when another invocation has removed f since it was listed.
CleanStat(p, f) ==
    /\ pc[p] = "clean_loop"
    /\ f \in listing[p]
    /\ file' = [file EXCEPT ![p] = f]
    /\ IF f \notin DOMAIN cache
       THEN /\ Caught(p, "OSError")
            /\ UNCHANGED listing
       ELSE IF Expired(cache[f], now[p])
       THEN /\ pc' = [pc EXCEPT ![p] = "clean_remove"]
            /\ UNCHANGED <<listing, exc, control>>
       ELSE /\ listing' = [listing EXCEPT ![p] = @ \ {f}]
            /\ UNCHANGED <<pc, exc, control>>
    /\ UNCHANGED <<username, password, ipaddr, default_factor, response, now,
                   connection_hash, hit, netcalls, seen>>
    /\ UNCHANGED shared
    /\ UNCHANGED <<supplied, config, request>>
    /\ UNCHANGED <<client, signing>>

\* line 370: os.remove(file). It raises OSError when the file is gone.
CleanRemove(p) ==
    /\ pc[p] = "clean_remove"
    /\ IF file[p] \notin DOMAIN cache
       THEN /\ Caught(p, "OSError")
            /\ UNCHANGED <<listing, cache>>
       ELSE /\ cache' = Remove(cache, file[p])
            /\ listing' = [listing EXCEPT ![p] = @ \ {file[p]}]
            /\ pc' = [pc EXCEPT ![p] = "clean_loop"]
            /\ UNCHANGED <<exc, control>>
    /\ UNCHANGED <<username, password, ipaddr, default_factor, response, now,
                   file, connection_hash, hit, netcalls, seen>>
    /\ UNCHANGED <<clock, invocations, stored, confirmed>>
    /\ UNCHANGED <<supplied, config, request>>
    /\ UNCHANGED <<client, signing>>

\* lines 385-389, once the loop of clean_cache has ended: the key is derived
\* and os.path.isfile decides the hit; a hit writes the success code. The
\* call of auth at line 441 follows in either case.
Lookup(p) ==
    /\ pc[p] = "clean_loop"
    /\ listing[p] = {}
    /\ LET h == get_hash_for_connection(username[p], password[p], ipaddr[p]) IN
       /\ connection_hash' = [connection_hash EXCEPT ![p] = h]
       /\ hit' = [hit EXCEPT ![p] = h \in DOMAIN cache]
       /\ control' = [control EXCEPT ![p] =
              IF h \in DOMAIN cache THEN success(@) ELSE @]
    /\ pc' = [pc EXCEPT ![p] = "auth"]
    /\ UNCHANGED <<username, password, ipaddr, default_factor, exc, response,
                   now, listing, file, netcalls, seen>>
    /\ UNCHANGED shared
    /\ UNCHANGED <<supplied, config, request>>
    /\ UNCHANGED <<client, signing>>

(***************************************************************************)
(* auth, lines 337-363.                                                    *)
(***************************************************************************)
\* password is None: normalize_params keeps it, and urllib.quote(None)
\* raises TypeError in canon_params, before any request is sent.
AuthQuoteError(p) ==
    /\ pc[p] = "auth"
    /\ password[p] = None
    /\ "host" \notin config[p]
    /\ request' = [request EXCEPT ![p] =
           AuthParams(username[p], password[p], ipaddr[p])]
    /\ Caught(p, "TypeError")
    /\ UNCHANGED <<username, password, ipaddr, default_factor, response, now,
                   listing, file, connection_hash, hit, netcalls, seen>>
    /\ UNCHANGED shared
    /\ UNCHANGED <<supplied, config>>
    /\ UNCHANGED <<client, signing>>

\* The call raises: in sign, before a request is sent, or else as a
\* transport failure or a RuntimeError from parse_json_response.
AuthRaise(p) ==
    /\ pc[p] = "auth"
    /\ password[p] # None \/ "host" \in config[p]
    /\ request' = [request EXCEPT ![p] =
           AuthParams(username[p], password[p], ipaddr[p])]
    /\ IF SignError(config[p]) # None
       THEN /\ Caught(p, SignError(config[p]))
            /\ UNCHANGED <<netcalls, seen>>
       ELSE /\ netcalls' = [netcalls EXCEPT ![p] = @ \cup {"auth"}]
            /\ seen' = [seen EXCEPT ![p].auth = "error"]
            /\ Caught(p, "RuntimeError")
    /\ UNCHANGED <<username, password, ipaddr, default_factor, response, now,
                   listing, file, connection_hash, hit>>
    /\ UNCHANGED shared
    /\ UNCHANGED <<supplied, config>>
    /\ UNCHANGED <<client, signing>>

\* The call returns the payload r.
AuthResponse(p, r) ==
    /\ pc[p] = "auth"
    /\ password[p] # None
    /\ SignError(config[p]) = None
    /\ request' = [request EXCEPT ![p] =
           AuthParams(username[p], password[p], ipaddr[p])]
    /\ netcalls' = [netcalls EXCEPT ![p] = @ \cup {"auth"}]
    /\ seen' = [seen EXCEPT ![p].auth = Classify(r)]
    /\ response' = [response EXCEPT ![p] = r]
    /\ pc' = [pc EXCEPT ![p] = "auth_result"]
    /\ UNCHANGED <<username, password, ipaddr, default_factor, exc, now,
                   listing, file, connection_hash, hit, control>>
    /\ UNCHANGED shared
    /\ UNCHANGED <<supplied, config>>
    /\ UNCHANGED <<client, signing>>

\* lines 350-363: the codes written for the payload r. A missing result or
\* status writes the failure code and falls through to the branch on result.
AuthWrites(r, written) ==
    LET w1 == IF ~Truthy(r.result) \/ ~Truthy(r.status)
              THEN failure(written) ELSE written
    IN  IF r.result = API_RESULT_ALLOW THEN success(w1)
        ELSE IF r.result = API_RESULT_DENY THEN failure(w1)
        ELSE failure(w1)

\* line 354: the branch that calls cache_auth
AuthStores(r) == r.result = API_RESULT_ALLOW

\* lines 347-363, with cache_auth (lines 391-393) when the result is "allow".
AuthResult(p) ==
    /\ pc[p] = "auth_result"
    /\ LET r == response[p]
           h == get_hash_for_connection(username[p], password[p], ipaddr[p])
       IN  /\ control' = [control EXCEPT ![p] = AuthWrites(r, @)]
           /\ IF AuthStores(r)
              THEN /\ connection_hash' = [connection_hash EXCEPT ![p] = h]
                   /\ cache' = Touch(cache, h, clock)
                   /\ stored' = stored \cup {Identity(p)}
                   /\ confirmed' = IF Classify(r) = "allow"
                                   THEN confirmed \cup {Identity(p)}
                                   ELSE confirmed
              ELSE UNCHANGED <<connection_hash, cache, stored, confirmed>>
    /\ response' = [response EXCEPT ![p] = NoResponse]
    /\ pc' = [pc EXCEPT ![p] = "final"]
    /\ UNCHANGED <<username, password, ipaddr, default_factor, exc, now,
                   listing, file, hit, netcalls, seen>>
    /\ UNCHANGED <<clock, invocations>>
    /\ UNCHANGED <<supplied, config, request>>
    /\ UNCHANGED <<client, signing>>

\* main ending without its last line: no code is written
FinalWithoutWrite(p) ==
    /\ pc[p] = "final"
    /\ pc' = [pc EXCEPT ![p] = "done"]
    /\ UNCHANGED <<username, password, ipaddr, default_factor, exc, response,
                   now, listing, file, connection_hash, hit, control, netcalls,
                   seen>>
    /\ UNCHANGED shared
    /\ UNCHANGED <<supplied, config, request>>
    /\ UNCHANGED <<client, signing>>

(***************************************************************************)
(* main, line 446: the unconditional failure(control) that ends main.      *)
(***************************************************************************)
Final(p) ==
    /\ pc[p] = "final"
    /\ control' = [control EXCEPT ![p] = failure(@)]
    /\ pc' = [pc EXCEPT ![p] = "done"]
    /\ UNCHANGED <<username, password, ipaddr, default_factor, exc, response,
                   now, listing, file, connection_hash, hit, netcalls, seen>>
    /\ UNCHANGED shared
    /\ UNCHANGED <<supplied, config, request>>
    /\ UNCHANGED <<client, signing>>

(***************************************************************************)
(* The wall clock read by time.time() and stamped on the marker files.     *)
(***************************************************************************)
Tick ==
    /\ clock + TickSeconds <= MaxClock
    /\ clock' = clock + TickSeconds
    /\ UNCHANGED <<pc, cache, invocations, stored, confirmed>>
    /\ UNCHANGED locals
    /\ UNCHANGED <<client, signing>>

\* the steps of invocation p, its inputs drawn from the given sets
Run(p, ctls, users, pws, pre, au, cfgs) ==
    \/ \E c \in ctls, u \in users, pw \in pws, ip \in Ipaddrs, cfg \in cfgs :
          Start(p, c, u, pw, ip, cfg)
    \/ PreauthRaise(p)
    \/ \E r \in pre : PreauthResponse(p, r)
    \/ PreauthResult(p)
    \/ Factor(p)
    \/ CleanStart(p)
    \/ \E f \in listing[p] : CleanStat(p, f)
    \/ CleanRemove(p)
    \/ Lookup(p)
    \/ AuthQuoteError(p)
    \/ AuthRaise(p)
    \/ \E r \in au : AuthResponse(p, r)
    \/ AuthResult(p)
    \/ Final(p)

\* One connection attempt at a time, with every input and a complete
\* configuration.
Next ==
    \/ Run(1, Controls, Usernames, Passwords, PreauthResponses, AuthResponses,
           {{}})
    \/ Tick

Spec == Init /\ [][Next]_vars

\* One connection attempt at a time by a named user, with every subset of
\* the required settings missing from environ.
NextConfig ==
    \/ Run(1, {TRUE}, {"alice"}, {"alice", None}, PreauthResponses,
           AuthResponses, Configs)
    \/ Tick

SpecConfig == Init /\ [][NextConfig]_vars

\* Connection attempts of one user from one address, running concurrently;
\* the service answers every pre-authentication with the default factor
\* "push" and every authentication with a well-formed allow or deny.
ConcurrentPreauth == {r \in PreauthResponses : r.result = API_RESULT_AUTH /\ r.factors = "push"}
ConcurrentAuth == {r \in AuthResponses : r.status = "ok" /\ r.result \in {API_RESULT_ALLOW, API_RESULT_DENY}}

NextConcurrent ==
    \/ \E p \in Procs, pw \in Passwords, ip \in Ipaddrs :
          Start(p, TRUE, "alice", pw, ip, {})
    \/ \E p \in Procs, r \in ConcurrentPreauth : PreauthResponse(p, r)
    \/ \E p \in Procs : PreauthResult(p)
    \/ \E p \in Procs : Factor(p)
    \/ \E p \in Procs : CleanStart(p)
    \/ \E p \in Procs : \E f \in listing[p] : CleanStat(p, f)
    \/ \E p \in Procs : CleanRemove(p)
    \/ \E p \in Procs : Lookup(p)
    \/ \E p \in Procs, r \in ConcurrentAuth : AuthResponse(p, r)
    \/ \E p \in Procs : AuthResult(p)
    \/ \E p \in Procs : Final(p)
    \/ Tick

SpecConcurrent == Init /\ [][NextConcurrent]_vars



(***************************************************************************)
(* Client.json_api_call, lines 244-251: api_call ends in _make_request     *)
(* (lines 226-239), and parse_json_response takes what it returns. Every   *)
(* use of the connection is one step.                                      *)
(***************************************************************************)
\* the state of the connection made by the running call
SetLast(s, v) == [s EXCEPT ![Len(s)] = v]

\* line 227: conn = self._connect(), an object not yet connected
Connect ==
    /\ cpc = "idle"
    /\ Len(conns) < MaxCalls
    /\ conns' = Append(conns, "new")
    /\ cpc' = "connected"
    /\ http' = NoHttp
    /\ outcome' = NoOutcome
    /\ UNCHANGED <<workflow, signing>>

\* line 235: conn.request(...) opens the socket and sends the request
Request ==
    /\ cpc = "connected"
    /\ conns' = SetLast(conns, "open")
    /\ cpc' = "sent"
    /\ UNCHANGED <<http, outcome, workflow, signing>>

\* line 236: response = conn.getresponse()
GetResponse(status, reason) ==
    /\ cpc = "sent"
    /\ http' = [status |-> status, reason |-> reason, data |-> None]
    /\ cpc' = "responded"
    /\ UNCHANGED <<conns, outcome, workflow, signing>>

\* line 237: data = response.read()
Read(raw) ==
    /\ cpc = "responded"
    /\ http' = [http EXCEPT !.data = raw]
    /\ cpc' = "read"
    /\ UNCHANGED <<conns, outcome, workflow, signing>>

\* lines 238-242: self._disconnect(conn); return (response, data)
Disconnect ==
    /\ cpc = "read"
    /\ conns' = SetLast(conns, "closed")
    /\ cpc' = "received"
    /\ UNCHANGED <<http, outcome, workflow, signing>>

\* line 251: return self.parse_json_response(response, data)
Parse ==
    /\ cpc = "received"
    /\ outcome' = parse_json_response(http.status, http.reason, http.data)
    /\ cpc' = "idle"
    /\ UNCHANGED <<conns, http, workflow, signing>>

\* lines 235-237: one of the three calls on conn raises (socket.error,
\* socket.timeout, httplib.HTTPException). Nothing in _make_request catches
\* it, so line 238 is not reached and the exception leaves json_api_call.
\* A failure of conn.request comes before or after the socket was opened.
TransportFails ==
    /\ cpc \in {"connected", "sent", "responded"}
    /\ \E s \in (IF cpc = "connected" THEN {"new", "open"} ELSE {"open"}) :
          conns' = SetLast(conns, s)
    /\ outcome' = Raises("socket.error")
    /\ cpc' = "idle"
    /\ UNCHANGED <<http, workflow, signing>>

NextClient ==
    \/ Connect
    \/ Request
    \/ \E status \in Statuses, reason \in Reasons : GetResponse(status, reason)
    \/ \E raw \in Bodies : Read(raw)
    \/ Disconnect
    \/ Parse
    \/ TransportFails

SpecClient == Init /\ [][NextClient]_vars


(***************************************************************************)
(* sign, lines 76-85, calls canonicalize on the parameters of a request:   *)
(* one call, on any mapping and with either signature version.             *)
(***************************************************************************)
Canonicalize(p, sig_version) ==
    /\ canonical = NotSigned
    /\ params' = p
    /\ canonical' =
           [version |-> sig_version,
            params |-> canon_params(p),
            request |-> canonicalize(Method, Host, Uri, p, Date, sig_version)]
    /\ UNCHANGED <<workflow, client>>

NextSigning ==
    \E p \in ParamMappings, sig_version \in SigVersions :
        Canonicalize(p, sig_version)

SpecSigning == Init /\ [][NextSigning]_vars

(***************************************************************************)
(* Properties.                                                             *)
(***************************************************************************)
\* the success code was written to the control file of invocation p
AllowSignal(p) == \E i \in 1..Len(control[p]) : control[p][i] = "1"

\* the code the control file of invocation p holds
LastCode(p) == IF control[p] = <<>> THEN None ELSE control[p][Len(control[p])]

\* the service answered invocation p with a well-formed Allow
ServiceAllowed(p) == seen[p].pre = "allow" \/ seen[p].auth = "allow"

\* C1 (fail-closed): an invocation writes the success code only if its cache
\* check hit or the service returned result "allow" together with a status.
C1_FailClosed ==
    \A p \in Procs : AllowSignal(p) => hit[p] \/ ServiceAllowed(p)

\* C2 (decision mapping for Allow): when the service returned a well-formed
\* Allow, the control file holds the success code when main has finished.
C2_AllowResolvesAllow ==
    \A p \in Procs : pc[p] = "done" /\ ServiceAllowed(p) => LastCode(p) = "1"

\* C3 (cache short-circuit): a cache hit comes before any network call of the
\* invocation, no network call follows it, and the invocation ends in Allow.
C3_CacheShortCircuit ==
    \A p \in Procs :
        hit[p] => /\ netcalls[p] = {}
                  /\ pc[p] = "done" => LastCode(p) = "1"

\* C4 (no exception escapes): whatever the pre-authentication and
\* authentication calls do, with or without a password, no exception leaves
\* main once the workflow has made its first call.
C4_NoExceptionEscapes ==
    \A p \in Procs : seen[p].pre # "none" => pc[p] # "crashed"

\* C5: the authentication endpoint is called only if the pre-authentication
\* call of the same invocation completed without error with result "auth".
C5_AuthOnlyAfterNeedSecondFactor ==
    \A p \in Procs :
        "auth" \in netcalls[p] =>
            seen[p].pre = "auth" /\ default_factor[p] # Unbound

\* C6: every entry of the cache has a prior well-formed Allow (result
\* "allow" with a status, from the authentication call) for its key.
C6_EntryOnlyAfterAllow ==
    \A k \in DOMAIN cache :
        \E t \in confirmed : get_hash_for_connection(t[1], t[2], t[3]) = k

\* C7: check_cache reports a hit for an identity tuple only if that same
\* ordered tuple was stored by cache_auth before.
C7_HitOnlyIfStored ==
    \A p \in Procs : pc[p] = "auth" /\ hit[p] => Identity(p) \in stored

\* C8: two invocations that derived their cache keys from distinct ordered
\* tuples (username, password, ipaddr) hold distinct keys.
C8_DistinctTuplesDistinctKeys ==
    \A p, q \in Procs :
        /\ connection_hash[p] # NoHash
        /\ connection_hash[q] # NoHash
        /\ Identity(p) # Identity(q)
        => connection_hash[p] # connection_hash[q]

\* the step of check_cache that evaluates the lookup, with a hit
LookupHits(p) == pc[p] = "clean_loop" /\ pc'[p] = "auth" /\ hit'[p]

\* C9: check_cache never reports a hit on an entry that is older than the
\* 12-hour retention window when the lookup is evaluated.
C9_ExpiredAlwaysMiss ==
    [][\A p \in Procs :
          LookupHits(p) =>
              ~(cache[connection_hash'[p]] < clock - 12 * 60 * 60)]_vars

\* C9, amended: check_cache never reports a hit on an entry that was older
\* than the 12-hour retention window at the time its own sweep read the
\* clock.
C9_NoHitOnEntryExpiredAtSweep ==
    [][\A p \in Procs :
          LookupHits(p) =>
              ~(cache[connection_hash'[p]] < now[p] - 12 * 60 * 60)]_vars

\* C9: an invocation whose tuple had been stored swept the cache more than
\* 12 hours after time zero, visited the file of its own key, and missed.
C9_Witness ==
    \E p \in Procs :
        /\ pc[p] = "auth"
        /\ ~hit[p]
        /\ Identity(p) \in stored
        /\ file[p] = connection_hash[p]
        /\ connection_hash[p] \notin DOMAIN cache
        /\ now[p] > 12 * 60 * 60

\* C10: no sweep fails with an error when invocations clean concurrently,
\* and every invocation goes on to the authentication call as it does when
\* it sweeps alone.
C10_ConcurrentCleanupHarmless ==
    \A p \in Procs :
        /\ exc[p] # "OSError"
        /\ pc[p] = "done" => "auth" \in netcalls[p]

\* C11 (orchestration rule): when the caller supplied no password and
\* pre-authentication produced no default factor, the invocation evaluates
\* no cache lookup and makes no attempt to call the authentication endpoint.
C11_DenyImmediately ==
    \A p \in Procs :
        ~Truthy(password[p]) /\ default_factor[p] = None =>
            /\ connection_hash[p] = NoHash
            /\ pc[p] \notin {"auth", "auth_result"}
            /\ exc[p] # "TypeError"

\* C12: an invocation writes one decision code to its control file and no
\* further code after it.
C12_ExactlyOneDecision ==
    \A p \in Procs : Len(control[p]) <= 1

\* C19: whenever main has returned normally, the last code written to the
\* control file is the failure code.
C19_LastCodeIsFailure ==
    \A p \in Procs : pc[p] = "done" => LastCode(p) = "0"

\* C19: main has returned after writing the success code on its way.
C19_Witness ==
    \E p \in Procs : pc[p] = "done" /\ AllowSignal(p) /\ LastCode(p) = "0"

(***************************************************************************)
(* C13: when pre-authentication answered "auth" with a default factor F    *)
(* and the caller supplied no password, F is the password from then on:    *)
(* the key looked up in the cache is computed from (username, F, ipaddr),  *)
(* an authentication request carries factor = "auto" and auto = F, and an  *)
(* "allow" answer stores the entry of (username, F, ipaddr).               *)
(***************************************************************************)
DefaultFactorInUse(p) ==
    /\ supplied[p] = None
    /\ Truthy(default_factor[p])
    /\ default_factor[p] # Unbound
    /\ pc[p] \in {"check_cache", "clean_loop", "clean_remove", "auth",
                  "auth_result", "final", "done"}

C13_DefaultFactorIsPassword ==
    \A p \in Procs :
        DefaultFactorInUse(p) =>
            LET F == default_factor[p]
            IN  /\ password[p] = F
                /\ connection_hash[p] \in
                       {NoHash, get_hash_for_connection(username[p], F, ipaddr[p])}
                /\ request[p].path = "/rest/v1/auth" =>
                       /\ request[p].user = username[p]
                       /\ request[p].factor = "auto"
                       /\ request[p].auto = F
                       /\ request[p].ipaddr = ipaddr[p]
                /\ seen[p].auth = "allow" /\ pc[p] \in {"final", "done"} =>
                       /\ <<username[p], F, ipaddr[p]>> \in stored
                       /\ get_hash_for_connection(username[p], F, ipaddr[p])
                              \in DOMAIN cache

\* C13: an invocation without a password was allowed by the service on the
\* default factor "push", after looking the key up in the cache.
C13_Witness ==
    \E p \in Procs :
        /\ DefaultFactorInUse(p)
        /\ default_factor[p] = "push"
        /\ pc[p] = "done"
        /\ "auth" \in netcalls[p]
        /\ request[p].auto = "push"
        /\ seen[p].auth = "allow"
        /\ connection_hash[p] # NoHash

(***************************************************************************)
(* C16: an invocation whose environ lacks one of ikey, skey and host makes *)
(* no pre-authentication call and no authentication call.                  *)
(***************************************************************************)
C16_ConfigErrorBeforeNetwork ==
    \A p \in Procs : config[p] # {} => netcalls[p] = {}

\* a step taken by invocation p inside check_cache (lines 383-389)
CheckCacheStep(p) ==
    /\ pc[p] \in {"check_cache", "clean_loop", "clean_remove"}
    /\ \/ pc'[p] # pc[p]
       \/ listing'[p] # listing[p]
       \/ file'[p] # file[p]
       \/ now'[p] # now[p]

(***************************************************************************)
(* C20: a step of check_cache creates no entry, leaves the timestamp of    *)
(* every entry it keeps unchanged, and deletes only entries that are older *)
(* than 12 hours when they are deleted.                                    *)
(***************************************************************************)
C20_CheckCacheOnlyDeletesExpired ==
    [][\A p \in Procs :
          CheckCacheStep(p) =>
              /\ DOMAIN cache' \subseteq DOMAIN cache
              /\ \A f \in DOMAIN cache :
                    IF f \in DOMAIN cache'
                    THEN cache'[f] = cache[f]
                    ELSE cache[f] < clock - 12 * 60 * 60]_vars

\* parse_json_response has returned or raised in the last call
Parsed == cpc = "idle" /\ http.data # None /\ outcome.kind # "none"

\* status 200 and a body that decodes to an object with stat "OK" and a
\* response member
SuccessShaped(raw) ==
    /\ json_loads(raw).type = "object"
    /\ {"stat", "response"} \subseteq DOMAIN json_loads(raw).members
    /\ json_loads(raw).members["stat"] = "OK"

(***************************************************************************)
(* C14: parse_json_response returns the response member exactly when the   *)
(* status is 200 and the body decodes to an object with stat "OK" and a    *)
(* response member; on every other input it raises RuntimeError.           *)
(***************************************************************************)
C14_ReturnsIffSuccess ==
    Parsed =>
        IF http.status = 200 /\ SuccessShaped(http.data)
        THEN /\ outcome.kind = "return"
             /\ outcome.value = json_loads(http.data).members["response"]
        ELSE /\ outcome.kind = "raise"
             /\ outcome.exc = "RuntimeError"

\* C14: the second call of the client received a success-shaped body under
\* a status other than 200, and parse_json_response raised RuntimeError.
C14_Witness ==
    /\ Parsed
    /\ Len(conns) = 2
    /\ http.status # 200
    /\ SuccessShaped(http.data)
    /\ outcome.kind = "raise"
    /\ outcome.exc = "RuntimeError"

(***************************************************************************)
(* C17: a RuntimeError raised by parse_json_response carries the status,   *)
(* the reason and the body bytes as they were received.                    *)
(***************************************************************************)
C17_ErrorCarriesRawBody ==
    Parsed /\ outcome.kind = "raise" =>
        /\ outcome.status = http.status
        /\ outcome.reason = http.reason
        /\ outcome.data = Bytes(http.data)

(***************************************************************************)
(* C18: when no call is running, no connection made by an earlier call is  *)
(* open.                                                                   *)
(***************************************************************************)
C18_NoConnectionLeftOpen ==
    cpc = "idle" => \A i \in 1..Len(conns) : conns[i] # "open"

\* the (quoted key, quoted value) pairs of a mapping, in its own order
RECURSIVE EncodedPairs(_)
EncodedPairs(p) ==
    IF p = <<>> THEN <<>>
    ELSE [i \in 1..Len(p[1][2]) |-> <<quote(p[1][1]), quote(p[1][2][i])>>]
         \o EncodedPairs(Tail(p))

\* a < b on pairs: by key, then by value
PairLess(a, b) ==
    \/ StrLess(a[1], b[1])
    \/ a[1] = b[1] /\ StrLess(a[2], b[2])

\* the pairs in ascending order
RECURSIVE SortPairs(_)
SortPairs(s) ==
    IF s = <<>> THEN <<>>
    ELSE LET i == CHOOSE i \in 1..Len(s) :
                      \A j \in 1..Len(s) : ~PairLess(s[j], s[i])
         IN  <<s[i]>> \o SortPairs(RemoveAt(s, i))

\* "key=value" for every pair in ascending order, joined with "&"
CanonicalOfPairs(p) ==
    LET sorted == SortPairs(EncodedPairs(p))
    IN  Join([i \in 1..Len(sorted) |-> sorted[i][1] \o <<61>> \o sorted[i][2]],
             <<38>>)

(***************************************************************************)
(* C15: canon_params returns the quoted (key, value) pairs sorted by key   *)
(* and then by value, joined as key=value with "&"; it returns the same    *)
(* string, and canonicalize the same request string, for every insertion   *)
(* order of the keys and every order of the values of a key.               *)
(***************************************************************************)
C15_OrderIndependent ==
    canonical # NotSigned =>
        /\ canonical.params = CanonicalOfPairs(params)
        /\ \A q \in Reorderings(params) :
              /\ canon_params(q) = canonical.params
              /\ canonicalize(Method, Host, Uri, q, Date, canonical.version)
                     = canonical.request

\* C15: a request was canonicalized whose two keys were inserted in
\* descending order of their quoted form, the first of them with two values
\* in descending order.
C15_Witness ==
    /\ Len(params) = 2
    /\ StrLess(quote(params[2][1]), quote(params[1][1]))
    /\ Len(params[1][2]) = 2
    /\ StrLess(quote(params[1][2][2]), quote(params[1][2][1]))
    /\ canonical.version = 2
    /\ canonical.params = canon_params(params)
    /\ canonical.params # <<>>

====
